---- MODULE Spec2Model ----
(***************************************************************************)
(* Model of server.js (wallet_ui): the GET / route handler, the three      *)
(* upstream fetchers getWalletBalances / getWalletActivity /               *)
(* getWalletCollectibles, and the number parsing and formatting they use.  *)
(*                                                                         *)
(* server.js holds two versions of the server one after the other; the     *)
(* model is of the first (lines 1-194), the one with the three fetchers.   *)
(*                                                                         *)
(* JavaScript values are records [t, s, n, e]:                             *)
(*   t = "str"   a string, s its characters                                *)
(*   t = "num"   the finite number n / 10^e (normalised: e = 0 or n not a  *)
(*               multiple of 10)                                           *)
(*   t = "nan"   the number NaN                                            *)
(*   t = "undef" undefined (a missing property)                            *)
(* Numbers are exact decimals; binary floating-point rounding is not       *)
(* modelled.                                                               *)
(***************************************************************************)
EXTENDS Integers, Sequences, FiniteSets, TLC

\* ------------------------------------------------------------------ bounds
\* longest balances array an upstream response carries
MaxTokens == 2
\* longest activity / collectibles array an upstream response carries
MaxItems == 1

\* ------------------------------------------------------- program constants
ActivityLimit == 25
CollectiblesLimit == 50

\* --------------------------------------------------------------- JS values
Str(chars) == [t |-> "str", s |-> chars, n |-> 0, e |-> 0]
Undefined == [t |-> "undef", s |-> <<>>, n |-> 0, e |-> 0]
NaN == [t |-> "nan", s |-> <<>>, n |-> 0, e |-> 0]

RECURSIVE Norm(_, _)
Norm(n, e) == IF e > 0 /\ n % 10 = 0 THEN Norm(n \div 10, e - 1) ELSE <<n, e>>

Num(n, e) == [t |-> "num", s |-> <<>>, n |-> Norm(n, e)[1], e |-> Norm(n, e)[2]]

isNaN(x) == x.t = "nan"

RECURSIVE Pow10(_)
Pow10(k) == IF k = 0 THEN 1 ELSE 10 * Pow10(k - 1)

Abs(n) == IF n < 0 THEN -n ELSE n

Max(a, b) == IF a > b THEN a ELSE b

\* JS  a + b  on numbers
Add(a, b) ==
    IF isNaN(a) \/ isNaN(b) THEN NaN
    ELSE LET e == Max(a.e, b.e)
         IN  Num(a.n * Pow10(e - a.e) + b.n * Pow10(e - b.e), e)

\* JS  a / Math.pow(10, d)  for a number a and a number d (an integer or NaN)
DivPow10(a, d) ==
    IF isNaN(a) \/ isNaN(d) THEN NaN
    ELSE IF d.n >= 0 THEN Num(a.n, a.e + d.n)
    ELSE IF a.e >= -d.n THEN Num(a.n, a.e + d.n)
    ELSE Num(a.n * Pow10((-d.n) - a.e), 0)

\* ---------------------------------------------------- parseFloat, parseInt
Digit == <<"0", "1", "2", "3", "4", "5", "6", "7", "8", "9">>

IsDigit(c) == \E d \in 1..10 : Digit[d] = c

DigitVal(c) == (CHOOSE d \in 1..10 : Digit[d] = c) - 1

\* the digits of s from position i on: <<value, number of digits, next position>>
RECURSIVE ScanDigits(_, _, _, _)
ScanDigits(s, i, acc, cnt) ==
    IF i <= Len(s) /\ IsDigit(s[i])
    THEN ScanDigits(s, i + 1, acc * 10 + DigitVal(s[i]), cnt + 1)
    ELSE <<acc, cnt, i>>

RECURSIVE SkipSpace(_, _)
SkipSpace(s, i) == IF i <= Len(s) /\ s[i] = " " THEN SkipSpace(s, i + 1) ELSE i

\* parseFloat of a string: leading blanks, a sign, digits, a point, digits;
\* the longest numeric prefix counts and the rest is ignored; NaN without a digit
parseFloatStr(s) ==
    LET i0   == SkipSpace(s, 1)
        neg  == i0 <= Len(s) /\ s[i0] = "-"
        i1   == IF i0 <= Len(s) /\ s[i0] \in {"-", "+"} THEN i0 + 1 ELSE i0
        ip   == ScanDigits(s, i1, 0, 0)
        dot  == ip[3] <= Len(s) /\ s[ip[3]] = "."
        fp   == IF dot THEN ScanDigits(s, ip[3] + 1, ip[1], 0) ELSE <<ip[1], 0, ip[3]>>
        sgn  == IF neg THEN -1 ELSE 1
    IN  IF ip[2] + fp[2] = 0 THEN NaN ELSE Num(sgn * fp[1], fp[2])

\* parseFloat(x): a string is parsed, a number is itself, undefined is NaN
parseFloat(x) ==
    CASE x.t = "str" -> parseFloatStr(x.s)
      [] x.t = "num" -> x
      [] OTHER -> NaN

\* parseInt of a string: leading blanks, a sign, digits; NaN without a digit
parseIntStr(s) ==
    LET i0   == SkipSpace(s, 1)
        neg  == i0 <= Len(s) /\ s[i0] = "-"
        i1   == IF i0 <= Len(s) /\ s[i0] \in {"-", "+"} THEN i0 + 1 ELSE i0
        ip   == ScanDigits(s, i1, 0, 0)
    IN  IF ip[2] = 0 THEN NaN ELSE Num((IF neg THEN -1 ELSE 1) * ip[1], 0)

\* parseInt(x): a number is truncated towards zero
parseInt(x) ==
    CASE x.t = "str" -> parseIntStr(x.s)
      [] x.t = "num" -> Num((IF x.n < 0 THEN -1 ELSE 1) * (Abs(x.n) \div Pow10(x.e)), 0)
      [] OTHER -> NaN
\* ------------------------------------------------------------- formatting
RECURSIVE DigitsOf(_)
DigitsOf(n) ==
    IF n < 10 THEN <<Digit[n + 1]>> ELSE DigitsOf(n \div 10) \o <<Digit[(n % 10) + 1]>>

\* n / d rounded to the nearest integer, for n >= 0
RoundDiv(n, d) == (2 * n + d) \div (2 * d)

\* the number x in hundredths, rounded
Hundredths(x) ==
    IF x.e <= 2 THEN x.n * Pow10(2 - x.e)
    ELSE (IF x.n < 0 THEN -1 ELSE 1) * RoundDiv(Abs(x.n), Pow10(x.e - 2))

TwoDigits(n) == <<Digit[(n \div 10) + 1], Digit[(n % 10) + 1]>>

NaNText == <<"N", "a", "N">>

\* Number.prototype.toFixed(2)
toFixed2(x) ==
    IF isNaN(x) THEN NaNText
    ELSE LET h == Hundredths(x)
         IN  (IF h < 0 THEN <<"-">> ELSE <<>>)
             \o DigitsOf(Abs(h) \div 100) \o <<".">> \o TwoDigits(Abs(h) % 100)

\* the thousands separator put into a run of digits
RECURSIVE Group(_)
Group(ds) ==
    IF Len(ds) <= 3 THEN ds
    ELSE Group(SubSeq(ds, 1, Len(ds) - 3)) \o <<",">> \o SubSeq(ds, Len(ds) - 2, Len(ds))

\* numbro(x).format('$0,0.00')
numbroCurrency(x) ==
    IF isNaN(x) THEN NaNText
    ELSE LET h == Hundredths(x)
         IN  (IF h < 0 THEN <<"-">> ELSE <<>>) \o <<"$">>
             \o Group(DigitsOf(Abs(h) \div 100)) \o <<".">> \o TwoDigits(Abs(h) % 100)

\* the abbreviation numbro picks for |n| / 10^e: the power of ten and its suffix
Abbrev(n, e) ==
    CASE e + 9 <= 9 /\ n >= Pow10(e + 9) -> <<9, <<"b">>>>
      [] e + 6 <= 9 /\ n >= Pow10(e + 6) -> <<6, <<"m">>>>
      [] e + 3 <= 9 /\ n >= Pow10(e + 3) -> <<3, <<"k">>>>
      [] OTHER -> <<0, <<>>>>

\* numbro(x).format('0,0.[00]A'): abbreviated, at most two decimals, trailing
\* zeros dropped
numbroAmount(x) ==
    IF isNaN(x) THEN NaNText
    ELSE LET a  == Abbrev(Abs(x.n), x.e)
             sh == x.e + a[1]
             h  == IF sh <= 2 THEN Abs(x.n) * Pow10(2 - sh)
                   ELSE RoundDiv(Abs(x.n), Pow10(sh - 2))
             fr == h % 100
         IN  (IF x.n < 0 THEN <<"-">> ELSE <<>>)
             \o Group(DigitsOf(h \div 100))
             \o (IF fr = 0 THEN <<>>
                 ELSE IF fr % 10 = 0 THEN <<".", Digit[(fr \div 10) + 1]>>
                 ELSE <<".">> \o TwoDigits(fr))
             \o a[2]
\* ------------------------------------------------------ upstream payloads
\* JS arrays and the other values a fetcher can hand back
Arr(items) == [isArray |-> TRUE, items |-> items]
NonArray == [isArray |-> FALSE, items |-> <<>>]

Chars1234p5 == <<"1", "2", "3", "4", ".", "5">>

\* a token record of the balances payload (null: the array element is JSON null)
Token(sym, amount, decimals, value) ==
    [null |-> FALSE, symbol |-> sym, amount |-> amount, decimals |-> decimals,
     value_usd |-> value]

TokEth == Token("ETH", Str(<<"1", "5", "0", "0", "0", "0", "0">>), Num(6, 0), Str(Chars1234p5))
TokSpam == Token("RTFKT", Str(<<"1", "0", "0", "0">>), Num(0, 0), Str(<<"9", "9", "9">>))
TokBadAmount == Token("DAI", Str(<<"a", "b", "c">>), Str(<<"2">>), Str(<<"0", ".", "2", "5">>))
TokNoFields == Token("WETH", Undefined, Undefined, Undefined)
TokNull == [null |-> TRUE, symbol |-> "", amount |-> Undefined, decimals |-> Undefined,
            value_usd |-> Undefined]

TokenUniverse == {TokEth, TokSpam, TokBadAmount, TokNoFields, TokNull}

ActivityUniverse == {"transfer1"}

CollectibleUniverse == {"nft1"}

SeqsUpTo(S, n) == UNION {[1..k -> S] : k \in 0..n}

\* what the upstream does with one call:
\*   neterr     fetch rejects
\*   status500  a response with ok = false
\*   notjson    response.json() rejects
\*   jsonnull   the body is JSON null
\*   absent     an object without the key
\*   falsy      the key holds null, 0, "" or false
\*   nonarray   the key holds an object or a non-empty string
\*   array      the key holds an array
NoItemKinds == {"neterr", "status500", "notjson", "jsonnull", "absent", "falsy", "nonarray"}

Response(kind, items) == [kind |-> kind, items |-> items]
NoResponse == Response("none", <<>>)

BalancesResponses ==
    {Response(k, <<>>) : k \in NoItemKinds}
    \cup {Response("array", s) : s \in SeqsUpTo(TokenUniverse, MaxTokens)}

ActivityResponses ==
    {Response(k, <<>>) : k \in NoItemKinds}
    \cup {Response("array", s) : s \in SeqsUpTo(ActivityUniverse, MaxItems)}

CollectiblesResponses ==
    {Response(k, <<>>) : k \in NoItemKinds}
    \cup {Response("array", s) : s \in SeqsUpTo(CollectibleUniverse, MaxItems)}

\* the calls that end in the fetcher's catch block before the payload is read:
\* fetch rejected, the thrown Error of a non-2xx status, response.json() rejected
Rejected(resp) == resp.kind \in {"neterr", "status500", "notjson"}

\* ------------------------------------------------------- getWalletBalances
numericAmount(token) == DivPow10(parseFloat(token.amount), parseInt(token.decimals))

FormatToken(token) ==
    [symbol |-> token.symbol, amount |-> token.amount, decimals |-> token.decimals,
     value_usd |-> token.value_usd,
     valueUSDFormatted |-> numbroCurrency(parseFloat(token.value_usd)),
     amountFormatted |-> numbroAmount(numericAmount(token))]

\* the filter with the symbol misspelt
KeepTokenLowerCase(token) == token.symbol # "rtfkt"

KeepToken(token) == token.symbol # "RTFKT"

\* (data.balances || []).map(...).filter(...); a TypeError (data is null, the
\* key's value has no map, an element is null) lands in the catch block
getWalletBalances(walletAddress, resp) ==
    IF walletAddress = "" THEN Arr(<<>>)
    ELSE IF Rejected(resp) THEN Arr(<<>>)
    ELSE IF resp.kind = "jsonnull" THEN Arr(<<>>)
    ELSE IF resp.kind \in {"absent", "falsy"} THEN Arr(<<>>)
    ELSE IF resp.kind = "nonarray" THEN Arr(<<>>)
    ELSE IF \E i \in 1..Len(resp.items) : resp.items[i].null THEN Arr(<<>>)
    ELSE Arr(SelectSeq([i \in 1..Len(resp.items) |-> FormatToken(resp.items[i])],
                       KeepToken))

\* ------------------------------- getWalletActivity, getWalletCollectibles
\* return data.activity || [] inside the try block
getWalletActivity(walletAddress, resp) ==
    IF walletAddress = "" THEN Arr(<<>>)
    ELSE IF Rejected(resp) THEN Arr(<<>>)
    ELSE IF resp.kind = "jsonnull" THEN Arr(<<>>)
    ELSE IF resp.kind \in {"absent", "falsy"} THEN Arr(<<>>)
    ELSE IF resp.kind = "nonarray" THEN NonArray
    ELSE Arr(resp.items)

\* return data.collectibles || [] inside the try block
getWalletCollectibles(walletAddress, resp) ==
    IF walletAddress = "" THEN Arr(<<>>)
    ELSE IF Rejected(resp) THEN Arr(<<>>)
    ELSE IF resp.kind = "jsonnull" THEN Arr(<<>>)
    ELSE IF resp.kind \in {"absent", "falsy"} THEN Arr(<<>>)
    ELSE IF resp.kind = "nonarray" THEN NonArray
    ELSE Arr(resp.items)

\* ------------------------------------------------------------- the server
VARIABLES
    pc,                   \* "idle", "awaiting" (at await Promise.all), "rendered",
                          \* "crashed" (an exception left the handler, no render)
    walletAddress, tab,   \* the handler's locals
    tokens, activities, collectibles, totalWalletUSDValue, errorMessage,
    fetchState,           \* per fetcher: "none", "pending", "settled"
    response,             \* per fetcher: what the upstream answered
    result,               \* per fetcher: the value its promise resolved to
    order,                \* the fetchers in the order they settled
    httpCalls,            \* the outbound HTTP calls issued
    view                  \* the view model handed to res.render

vars == <<pc, walletAddress, tab, tokens, activities, collectibles,
          totalWalletUSDValue, errorMessage, fetchState, response, result, order,
          httpCalls, view>>

Fetchers == {"balances", "activity", "collectibles"}

Null == "null"
ErrorText == "Failed to fetch wallet data. Please try again."

\* req.query: each parameter present or absent
Queries ==
    [hasWallet : BOOLEAN, walletAddress : {"", "0xabc"},
     hasTab : BOOLEAN, tab : {"activity"}]

NoView ==
    [walletAddress |-> "", currentTab |-> "", totalWalletUSDValue |-> <<>>,
     tokens |-> Arr(<<>>), activities |-> Arr(<<>>), collectibles |-> Arr(<<>>),
     errorMessage |-> Null]

Init ==
    /\ pc = "idle"
    /\ walletAddress = ""
    /\ tab = ""
    /\ tokens = Arr(<<>>)
    /\ activities = Arr(<<>>)
    /\ collectibles = Arr(<<>>)
    /\ totalWalletUSDValue = Num(0, 0)
    /\ errorMessage = Null
    /\ fetchState = [f \in Fetchers |-> "none"]
    /\ response = [f \in Fetchers |-> NoResponse]
    /\ result = [f \in Fetchers |-> Arr(<<>>)]
    /\ order = <<>>
    /\ httpCalls = {}
    /\ view = NoView

\* the sum of parseFloat(token.value_usd) over the tokens, NaN counted as 0
RECURSIVE SumUSD(_)
SumUSD(toks) ==
    IF toks = <<>> THEN Num(0, 0)
    ELSE LET value == parseFloat(toks[Len(toks)].value_usd)
         IN  Add(SumUSD(SubSeq(toks, 1, Len(toks) - 1)),
                 IF isNaN(value) THEN Num(0, 0) ELSE value)

\* the guard dropped
ShouldFetchAlways(address) == TRUE

\* if (walletAddress)
ShouldFetch(address) == address # ""

\* the total before the fetches: the loop over the still empty tokens, then
\* numbro(totalWalletUSDValue).format('$0,0.00'), which is a string
PreFetchTotal(toks) == Str(numbroCurrency(SumUSD(toks.items)))

\* the total after the join: reassigned only if there is a token
PostFetchTotal(toks, total) ==
    IF toks.isArray /\ Len(toks.items) > 0 THEN SumUSD(toks.items) ELSE total

\* two slots of the destructuring exchanged
PromiseAllSwapped(res, ord) == <<res["balances"], res["collectibles"], res["activity"]>>

\* Promise.all: the results by position, whatever the order of settling
PromiseAll(res, ord) == <<res["balances"], res["activity"], res["collectibles"]>>

\* the calls a fetcher issues: none for an empty address
CallsOf(address) ==
    IF address = "" THEN {}
    ELSE {[endpoint |-> "balances", address |-> address, limit |-> 0],
          [endpoint |-> "activity", address |-> address, limit |-> ActivityLimit],
          [endpoint |-> "collectibles", address |-> address, limit |-> CollectiblesLimit]}

\* totalWalletUSDValue.toFixed(2) exists on numbers only
HasToFixed(total) == total.t \in {"num", "nan"}

\* res.render('wallet', {...}); the TypeError of a missing toFixed is thrown
\* outside the try block and leaves the handler
Render(address, tb, total, toks, acts, cols, err) ==
    IF HasToFixed(total)
    THEN /\ pc' = "rendered"
         /\ view' = [walletAddress |-> address, currentTab |-> tb,
                     totalWalletUSDValue |-> <<"$">> \o toFixed2(total),
                     tokens |-> toks, activities |-> acts, collectibles |-> cols,
                     errorMessage |-> err]
    ELSE /\ pc' = "crashed"
         /\ view' = view

\* GET /, from the destructuring of req.query to the first await, or to the
\* render when there is no address
HandlerStart(q) ==
    /\ pc = "idle"
    /\ LET address == IF q.hasWallet THEN q.walletAddress ELSE ""
           tb      == IF q.hasTab THEN q.tab ELSE "tokens"
       IN  /\ walletAddress' = address
           /\ tab' = tb
           /\ IF ShouldFetch(address)
              THEN /\ totalWalletUSDValue' = PreFetchTotal(tokens)
                   /\ httpCalls' = CallsOf(address)
                   /\ fetchState' = [f \in Fetchers |->
                                       IF address = "" THEN "settled" ELSE "pending"]
                   /\ order' = IF address = ""
                               THEN <<"balances", "activity", "collectibles">>
                               ELSE <<>>
                   /\ pc' = "awaiting"
                   /\ UNCHANGED view
              ELSE /\ Render(address, tb, totalWalletUSDValue, tokens, activities,
                             collectibles, errorMessage)
                   /\ UNCHANGED <<totalWalletUSDValue, httpCalls, fetchState, order>>
    /\ UNCHANGED <<tokens, activities, collectibles, errorMessage, response, result>>

Settle(f, resp, value) ==
    /\ fetchState[f] = "pending"
    /\ fetchState' = [fetchState EXCEPT ![f] = "settled"]
    /\ response' = [response EXCEPT ![f] = resp]
    /\ result' = [result EXCEPT ![f] = value]
    /\ order' = Append(order, f)
    /\ UNCHANGED <<pc, walletAddress, tab, tokens, activities, collectibles,
                   totalWalletUSDValue, errorMessage, httpCalls, view>>

BalancesSettle(resp) == Settle("balances", resp, getWalletBalances(walletAddress, resp))

ActivitySettle(resp) == Settle("activity", resp, getWalletActivity(walletAddress, resp))

CollectiblesSettle(resp) ==
    Settle("collectibles", resp, getWalletCollectibles(walletAddress, resp))

\* the handler after await Promise.all: the three slots, the total, the render
HandlerResume ==
    /\ pc = "awaiting"
    /\ \A f \in Fetchers : fetchState[f] = "settled"
    /\ LET all   == PromiseAll(result, order)
           total == PostFetchTotal(all[1], totalWalletUSDValue)
       IN  /\ tokens' = all[1]
           /\ activities' = all[2]
           /\ collectibles' = all[3]
           /\ totalWalletUSDValue' = total
           /\ Render(walletAddress, tab, total, all[1], all[2], all[3], errorMessage)
    /\ UNCHANGED <<walletAddress, tab, errorMessage, fetchState, response, result,
                   order, httpCalls>>

\* the handler's catch block, entered by an exception raised in the try block
\* while it awaits; then the render
HandlerCatch ==
    /\ pc = "awaiting"
    /\ errorMessage' = ErrorText
    /\ Render(walletAddress, tab, totalWalletUSDValue, tokens, activities,
              collectibles, ErrorText)
    /\ UNCHANGED <<walletAddress, tab, tokens, activities, collectibles,
                   totalWalletUSDValue, fetchState, response, result, order, httpCalls>>

Next ==
    \/ \E q \in Queries : HandlerStart(q)
    \/ \E resp \in BalancesResponses : BalancesSettle(resp)
    \/ \E resp \in ActivityResponses : ActivitySettle(resp)
    \/ \E resp \in CollectiblesResponses : CollectiblesSettle(resp)
    \/ HandlerResume

Spec == Init /\ [][Next]_vars

\* the same server with an exception injected into the handler's try block
NextCatch == Next \/ HandlerCatch

SpecCatch == Init /\ [][NextCatch]_vars

\* ------------------------------------------------------------- properties
Finished == pc \in {"rendered", "crashed"}

Settled(f) == fetchState[f] = "settled"

ZeroText == <<"$", "0", ".", "0", "0">>

\* a payload whose key holds an array of token records
WellFormed(resp) ==
    resp.kind = "array" /\ \A i \in 1..Len(resp.items) : ~resp.items[i].null

\* the upstream fields of a returned token
Raw(t) == Token(t.symbol, t.amount, t.decimals, t.value_usd)

\* the tokens of a payload without the denylisted symbol, in their order
RECURSIVE NonSpam(_)
NonSpam(items) ==
    IF items = <<>> THEN <<>>
    ELSE IF Head(items).symbol = "RTFKT" THEN NonSpam(Tail(items))
    ELSE <<Head(items)>> \o NonSpam(Tail(items))

\* "$", digits in groups of three split by ",", ".", two digits
IsCurrencyText(s) ==
    /\ Len(s) >= 5
    /\ s[1] = "$"
    /\ s[Len(s) - 2] = "."
    /\ IsDigit(s[Len(s) - 1]) /\ IsDigit(s[Len(s)])
    /\ IsDigit(s[2])
    /\ \A i \in 2..(Len(s) - 3) :
          IF (Len(s) - 3 - i) % 4 = 3 THEN s[i] = "," ELSE IsDigit(s[i])

\* C1: when the balances call answers HTTP 500, getWalletBalances resolves to
\* the empty sequence and the handler still renders, with an empty token list
C1_Balances500StillRenders ==
    (Finished /\ response["balances"].kind = "status500")
        => /\ result["balances"] = Arr(<<>>)
           /\ pc = "rendered"
           /\ view.tokens = Arr(<<>>)

\* C2: a request with an empty or absent walletAddress renders empty tokens,
\* activities and collectibles, errorMessage null and total "$0.00", and
\* issues no outbound call
C2_EmptyAddressZeroView ==
    (pc # "idle" /\ walletAddress = "")
        => /\ pc = "rendered"
           /\ view.tokens = Arr(<<>>)
           /\ view.activities = Arr(<<>>)
           /\ view.collectibles = Arr(<<>>)
           /\ view.errorMessage = Null
           /\ view.totalWalletUSDValue = ZeroText
           /\ httpCalls = {}
           /\ \A f \in Fetchers : fetchState[f] = "none"

C2_Witness == pc = "rendered" /\ walletAddress = "" /\ view.currentTab = "tokens"

\* C3: when the activity call fails and the balances and collectibles calls
\* succeed, the handler renders every retained balance, every collectible and
\* no activity, whatever the order of completion
C3_ActivityFailureIsolated ==
    (/\ Finished
     /\ response["activity"].kind \in {"neterr", "status500"}
     /\ WellFormed(response["balances"])
     /\ response["collectibles"].kind = "array")
        => /\ pc = "rendered"
           /\ [i \in 1..Len(view.tokens.items) |-> Raw(view.tokens.items[i])]
                 = NonSpam(response["balances"].items)
           /\ view.collectibles = Arr(response["collectibles"].items)
           /\ view.activities = Arr(<<>>)

\* C4: for a non-empty address the rendered total is the sum of value_usd over
\* the retained tokens, a non-numeric value counted as 0, and 0 when no token
\* is retained
C4_TotalIsSumOfRetained ==
    (Finished /\ walletAddress # "")
        => /\ pc = "rendered"
           /\ parseFloatStr(Tail(view.totalWalletUSDValue))
                 = Num(Hundredths(SumUSD(result["balances"].items)), 2)

\* C5: the rendered total is a currency symbol, the integer part with a
\* thousands separator, and two decimals
C5_TotalCurrencyFormatted ==
    pc = "rendered" => IsCurrencyText(view.totalWalletUSDValue)

\* C6: each fetcher resolves to a sequence, the empty one on a network error,
\* a non-2xx status and a malformed payload
C6_FetchersResolveToSequences ==
    \A f \in Fetchers :
        Settled(f) => /\ result[f].isArray
                      /\ response[f].kind \in NoItemKinds => result[f] = Arr(<<>>)

\* C7: getWalletBalances returns no token with symbol RTFKT and keeps every
\* other token of a well-formed payload in its upstream order
C7_SpamTokenRemoved ==
    (Settled("balances") /\ response["balances"].kind = "array")
        => /\ \A i \in 1..Len(result["balances"].items) :
                 result["balances"].items[i].symbol # "RTFKT"
           /\ WellFormed(response["balances"])
                 => [i \in 1..Len(result["balances"].items) |->
                        Raw(result["balances"].items[i])]
                       = NonSpam(response["balances"].items)

C7_Witness ==
    /\ Settled("balances")
    /\ response["balances"] = Response("array", <<TokSpam, TokEth>>)
    /\ Len(result["balances"].items) = 1

\* C8: after the handler's catch block the handler renders the error string,
\* empty tokens, activities and collectibles, and the total "$0.00"
C8_CatchRendersErrorView ==
    errorMessage = ErrorText
        => /\ pc = "rendered"
           /\ view.errorMessage = ErrorText
           /\ view.tokens = Arr(<<>>)
           /\ view.activities = Arr(<<>>)
           /\ view.collectibles = Arr(<<>>)
           /\ view.totalWalletUSDValue = ZeroText

\* C9: the derived amount of a token is parseFloat(amount) / 10^decimals, and
\* 0 (not NaN) when amount or decimals is non-numeric or missing; the token is
\* returned with its formatted fields
C9_DerivedAmountNeverNaN ==
    (Settled("balances") /\ WellFormed(response["balances"]))
        => /\ \A i \in 1..Len(response["balances"].items) :
                 LET tok == response["balances"].items[i]
                     a   == parseFloat(tok.amount)
                     d   == parseInt(tok.decimals)
                 IN  numericAmount(tok) =
                        IF isNaN(a) \/ isNaN(d) THEN Num(0, 0) ELSE DivPow10(a, d)
           /\ Len(result["balances"].items) = Len(NonSpam(response["balances"].items))

\* C10: the three fetches are issued before any is awaited, the handler
\* finishes only after all three settled, each result lands in its own slot
\* whatever the order of completion, and a settling fetch changes no other
\* fetch's state
C10_SlotsInv ==
    /\ pc = "awaiting"
          => /\ \A f \in Fetchers : fetchState[f] # "none"
             /\ Cardinality(httpCalls) = 3
    /\ (Finished /\ walletAddress # "") => \A f \in Fetchers : Settled(f)
    /\ (pc = "rendered" /\ walletAddress # "")
          => /\ view.tokens = result["balances"]
             /\ view.activities = result["activity"]
             /\ view.collectibles = result["collectibles"]
             /\ view.tokens = getWalletBalances(walletAddress, response["balances"])
             /\ view.activities = getWalletActivity(walletAddress, response["activity"])
             /\ view.collectibles
                   = getWalletCollectibles(walletAddress, response["collectibles"])
             /\ view.totalWalletUSDValue = <<"$">> \o toFixed2(SumUSD(view.tokens.items))
    /\ pc = "crashed" => result["balances"].items = <<>>

C10_SettleIsLocal ==
    \A f \in Fetchers :
        fetchState'[f] = fetchState[f]
            => result'[f] = result[f] /\ response'[f] = response[f]

C10_IndependentFetches == []C10_SlotsInv /\ [][C10_SettleIsLocal]_vars

C10_Witness ==
    /\ pc = "rendered"
    /\ order = <<"collectibles", "activity", "balances">>
    /\ Len(view.tokens.items) = 2
    /\ view.activities = Arr(<<"transfer1">>)
    /\ view.collectibles = Arr(<<"nft1">>)
====
